---- MODULE Spec2Model ----
(***************************************************************************)
(* The Stock Analyzer (Responses API): task/main.py.                       *)
(*                                                                         *)
(* call_openai is modelled as a sequential state machine.  The remote      *)
(* service (client creation, responses.create, containers.files.content.   *)
(* retrieve, the byte stream's read) and the local file system are the     *)
(* environment: each call either returns a value drawn from a small set or *)
(* raises an exception drawn from ExcTypes.                                *)
(***************************************************************************)
EXTENDS Naturals, Sequences, FiniteSets

VARIABLES
    env,          \* process environment: variable name -> value
    creds,        \* the triple returned by validate_environment_variables
    pc,           \* position in call_openai / save_visualizations
    client,       \* TRUE once OpenAI(api_key=...) has returned
    response,     \* the object returned by client.responses.create
    view,         \* index of the next view to print (lines 227-240)
    idx,          \* position of the scan in the citations of the response
    stream,       \* file_content returned by the last retrieve
    file,         \* the file at OUTPUT_IMAGE_PATH
    out,          \* console output, a sequence of <<tag, argument>>
    net,          \* remote calls issued, in order; a fetch is logged with the
                  \* stream it returned, or with the exception it raised
    exc,          \* the exception raised in the run (NoExc if none)
    raisedAt,     \* the step that raised it
    file0,        \* history: the file when the run started
    fileAtFetch,  \* history: the file when the last retrieve was issued
    runs          \* what each completed call of save_visualizations left (two-call runs)

vars == <<env, creds, pc, client, response, view, idx, stream, file, out, net,
          exc, raisedAt, file0, fileAtFetch, runs>>

----------------------------------------------------------------------------
(* Bounds *)

MaxAnnotations == 2

----------------------------------------------------------------------------
(* Constants of main.py *)

MODEL == "gpt-5-mini"
MCP_SERVER_LABEL == "AlphaVantage"
OUTPUT_IMAGE_PATH == "stock_image.png"

\* os.getenv gives None for an unset variable and the string otherwise.
None == "None"
EnvValues == {None, "", "v1", "v2"}

\* Python truthiness of an Optional[str]: None and "" are falsy.
Truthy(v) == v # None /\ v # ""

----------------------------------------------------------------------------
(* validate_environment_variables (lines 23-54) *)

\* The value it returns on success; (None, None, None) on failure.
NoCreds == <<None, None, None>>

\* Lines 46-54 with the SERVER_URL check dropped: the value is returned
\* unchecked.
validate_server_url_unchecked(e, o) ==
    [out |-> o \o << <<"present", "SERVER_URL">> >>,
     ret |-> <<e["OPENAI_API_KEY"], e["AUTHORIZATION"], e["SERVER_URL"]>>]

\* Lines 46-54: the third check, given the output printed so far.
validate_server_url(e, o) ==
    IF ~Truthy(e["SERVER_URL"])
    THEN [out |-> o \o << <<"ERROR", "SERVER_URL">>, <<"remedy", "SERVER_URL">> >>,
          ret |-> NoCreds]
    ELSE [out |-> o \o << <<"present", "SERVER_URL">> >>,
          ret |-> <<e["OPENAI_API_KEY"], e["AUTHORIZATION"], e["SERVER_URL"]>>]

\* Lines 38-44: the second check, then the third.
validate_authorization(e, o) ==
    IF ~Truthy(e["AUTHORIZATION"])
    THEN [out |-> o \o << <<"ERROR", "AUTHORIZATION">>, <<"remedy", "AUTHORIZATION">> >>,
          ret |-> NoCreds]
    ELSE validate_server_url(e, o \o << <<"present", "AUTHORIZATION">> >>)

\* Lines 30-54: what the function prints and returns in environment e.
validate_environment_variables(e) ==
    IF ~Truthy(e["OPENAI_API_KEY"])
    THEN [out |-> << <<"ERROR", "OPENAI_API_KEY">>, <<"remedy", "OPENAI_API_KEY">> >>,
          ret |-> NoCreds]
    ELSE validate_authorization(e, << <<"present", "OPENAI_API_KEY">> >>)

\* Line 203: all([openai_api_key, alphavantage_api_key, server_url]).
AllTruthy(t) == \A n \in 1..Len(t) : Truthy(t[n])

----------------------------------------------------------------------------
(* get_analysis_prompt (lines 56-77) and create_api_response (lines 80-110) *)

get_analysis_prompt == "Please analyze the Apple stock (AAPL) ..."

\* The data-provider tool descriptor with per-call approval switched on.
McpToolAlways(server_url, api_key) ==
    [type |-> "mcp",
     server_label |-> MCP_SERVER_LABEL,
     server_description |-> "Alpha Vantage MCP Server for financial market data",
     server_url |-> server_url,
     authorization |-> api_key,
     require_approval |-> "always"]

\* Lines 96-103.
McpTool(server_url, api_key) ==
    [type |-> "mcp",
     server_label |-> MCP_SERVER_LABEL,
     server_description |-> "Alpha Vantage MCP Server for financial market data",
     server_url |-> server_url,
     authorization |-> api_key,
     require_approval |-> "never"]

\* Lines 104-107.
CodeInterpreterTool ==
    [type |-> "code_interpreter",
     container |-> [type |-> "auto", memory_limit |-> "4g"]]

\* Lines 93-110: the keyword arguments of client.responses.create.
RequestArgs(user_prompt, server_url, api_key) ==
    [model |-> MODEL,
     tools |-> <<McpTool(server_url, api_key), CodeInterpreterTool>>,
     input |-> user_prompt]

----------------------------------------------------------------------------
(* Exceptions: the classes imported on line 11 and the handlers of         *)
(* lines 245-252.                                                          *)

NoExc == "none"

ExcTypes == {"AuthenticationError", "RateLimitError", "APIConnectionError",
             "OpenAIError", "AttributeError", "OSError"}

\* The direct base class of each exception class.
Base(c) ==
    CASE c = "AuthenticationError" -> "APIStatusError"
      [] c = "RateLimitError"      -> "APIStatusError"
      [] c = "APIStatusError"      -> "APIError"
      [] c = "APIConnectionError"  -> "APIError"
      [] c = "APIError"            -> "OpenAIError"
      [] c = "OpenAIError"         -> "Exception"
      [] OTHER                     -> "Exception"

RECURSIVE Mro(_)
Mro(c) == IF c = "Exception" THEN {c} ELSE {c} \cup Mro(Base(c))

\* isinstance(e, cls) for an exception e of class t.
IsInstance(t, cls) == cls \in Mro(t)

\* Lines 245-252 with the two first clauses exchanged.
ExceptClausesApiFirst ==
    << [cls |-> "APIError",            diagnostic |-> "API ERROR"],
       [cls |-> "AuthenticationError", diagnostic |-> "AUTHENTICATION ERROR"],
       [cls |-> "OpenAIError",         diagnostic |-> "OPENAI ERROR"],
       [cls |-> "Exception",           diagnostic |-> "UNEXPECTED ERROR"] >>

\* Lines 245-252 without the catch-all clause.
ExceptClausesNoCatchAll ==
    << [cls |-> "AuthenticationError", diagnostic |-> "AUTHENTICATION ERROR"],
       [cls |-> "APIError",            diagnostic |-> "API ERROR"],
       [cls |-> "OpenAIError",         diagnostic |-> "OPENAI ERROR"] >>

\* Lines 245-252: the except clauses in source order, each with the
\* diagnostic its handler prints (lines 150-187).
ExceptClauses ==
    << [cls |-> "AuthenticationError", diagnostic |-> "AUTHENTICATION ERROR"],
       [cls |-> "APIError",            diagnostic |-> "API ERROR"],
       [cls |-> "OpenAIError",         diagnostic |-> "OPENAI ERROR"],
       [cls |-> "Exception",           diagnostic |-> "UNEXPECTED ERROR"] >>

Diagnostics == {"AUTHENTICATION ERROR", "API ERROR", "OPENAI ERROR", "UNEXPECTED ERROR"}

\* Python's try statement: the first clause whose class the exception is
\* an instance of; 0 when none matches and the exception propagates.
RECURSIVE FirstMatch(_, _)
FirstMatch(t, n) ==
    IF n > Len(ExceptClauses) THEN 0
    ELSE IF IsInstance(t, ExceptClauses[n].cls) THEN n
    ELSE FirstMatch(t, n + 1)

MatchingClause(t) == FirstMatch(t, 1)

----------------------------------------------------------------------------
(* The response object and the scan of save_visualizations (lines 125-131) *)

\* An annotation; a url_citation carries no container_id or file_id.
FileCitation(n) ==
    [type |-> "container_file_citation", container_id |-> "cntr_1", file_id |-> n]
UrlCitation ==
    [type |-> "url_citation", container_id |-> None, file_id |-> None]

Annotations == {FileCitation("cfile_1"), FileCitation("cfile_2"), UrlCitation}

AnnSeqs == UNION {[1..n -> Annotations] : n \in 0..MaxAnnotations}

\* A content entry; has_annotations is hasattr(content, 'annotations').
Content(s) == [has_annotations |-> TRUE, annotations |-> s]
PlainContent == [has_annotations |-> FALSE, annotations |-> <<>>]
Message(cs) == [content |-> cs]

\* The ways the annotations s are laid out over messages and contents.
Layouts(s) ==
    {<<Message(<<Content(s)>>)>>, <<Message(<<PlainContent, Content(s)>>)>>}
    \cup {<<Message(<<Content(SubSeq(s, 1, k))>>),
            Message(<<Content(SubSeq(s, k + 1, Len(s)))>>)>> : k \in 0..Len(s)}
    \cup {<<Message(<<Content(SubSeq(s, 1, k)),
                      Content(SubSeq(s, k + 1, Len(s)))>>)>> : k \in 1..(Len(s) - 1)}

ItemLists == {<<>>, <<Message(<<>>)>>} \cup UNION {Layouts(s) : s \in AnnSeqs}

\* A response: its message items, and whether the object exposes them as the
\* attribute `messages` that line 125 reads (the SDK's Response exposes its
\* items as `output`, the attribute lines 231-240 print).
Responses == [has_messages : BOOLEAN, items : ItemLists]
NoResponse == [has_messages |-> FALSE, items |-> <<>>]

IsFileCitation(a) == a.type = "container_file_citation"

\* Lines 127-129: the citations of one content entry, in order.
ContentCitations(c) ==
    IF c.has_annotations THEN SelectSeq(c.annotations, IsFileCitation) ELSE <<>>

\* Line 126: the citations of one message, content after content.
RECURSIVE MessageCitations(_, _)
MessageCitations(cs, n) ==
    IF n > Len(cs) THEN <<>>
    ELSE ContentCitations(cs[n]) \o MessageCitations(cs, n + 1)

RECURSIVE ScanFrom(_, _)
ScanFrom(ms, n) ==
    IF n > Len(ms) THEN <<>>
    ELSE MessageCitations(ms[n].content, 1) \o ScanFrom(ms, n + 1)

\* The scan stopping after the first message.
CitationsFirstMessage(ms) ==
    IF ms = <<>> THEN <<>> ELSE MessageCitations(ms[1].content, 1)

\* Lines 125-129: the annotations the nested loops reach, in scan order.
Citations(ms) == ScanFrom(ms, 1)

----------------------------------------------------------------------------
(* The file at OUTPUT_IMAGE_PATH and the byte streams of the remote service *)

Absent == [exists |-> FALSE, data |-> <<>>]
InitialFiles == {Absent, [exists |-> TRUE, data |-> <<0>>]}

Bodies == {<<1>>, <<2, 3>>}

\* file_content: the bytes read() gives, or the exception read() raises.
Streams == {[body |-> b, read_raises |-> NoExc] : b \in Bodies}
           \cup {[body |-> <<>>, read_raises |-> t] : t \in ExcTypes}
NoStream == [body |-> <<>>, read_raises |-> NoExc]

\* open(path, 'ab'): the content is kept.
OpenAB(f) == [exists |-> TRUE, data |-> f.data]

\* Line 142, open(OUTPUT_IMAGE_PATH, 'wb'): creates or truncates the file.
OpenWB(f) == [exists |-> TRUE, data |-> <<>>]

\* A write that loses the last byte.
WriteShort(f, b) == [f EXCEPT !.data = @ \o SubSeq(b, 1, Len(b) - 1)]

\* Line 143, f.write(b).
Write(f, b) == [f EXCEPT !.data = @ \o b]

\* Lines 231, 238, 240: the three views in the order they are printed.
RenderOrderOutputFirst == <<"output", "model_dump", "output_text">>
RenderOrder == <<"model_dump", "output", "output_text">>

\* Lines 245-252 fall through to the end of call_openai.
AfterHandlerRetry == "create"
AfterHandler == "done"

----------------------------------------------------------------------------
(* call_openai (lines 190-252) *)

EnvVars == {"OPENAI_API_KEY", "AUTHORIZATION", "SERVER_URL"}

Emit(lines) == out' = out \o lines

\* A raise inside the try block: control goes to the except clauses.
Raise(t, at) ==
    /\ exc' = t
    /\ raisedAt' = at
    /\ pc' = "raised"

Init ==
    /\ env \in [EnvVars -> EnvValues]
    /\ creds = NoCreds
    /\ pc = "start"
    /\ client = FALSE
    /\ response = NoResponse
    /\ view = 1
    /\ idx = 1
    /\ stream = NoStream
    /\ file \in InitialFiles
    /\ out = <<>>
    /\ net = <<>>
    /\ exc = NoExc
    /\ raisedAt = "none"
    /\ file0 = file
    /\ fileAtFetch = file
    /\ runs = <<>>

\* Lines 201-204: validate the environment, return when a value is missing.
ValidateEnvironment ==
    /\ pc = "start"
    /\ LET v == validate_environment_variables(env) IN
         /\ Emit(v.out)
         /\ creds' = v.ret
         /\ pc' = IF AllTruthy(v.ret) THEN "init_client" ELSE "done"
    /\ UNCHANGED <<env, client, response, view, idx, stream, file, net, exc,
                   raisedAt, file0, fileAtFetch, runs>>

\* Lines 207-222: create the client, print the request banner.
InitClient ==
    /\ pc = "init_client"
    /\ \/ /\ client' = TRUE
          /\ Emit(<< <<"progress", "init_client">>, <<"banner", "request">> >>)
          /\ pc' = "create"
          /\ UNCHANGED <<exc, raisedAt>>
       \/ \E t \in ExcTypes :
          /\ Raise(t, "init_client")
          /\ Emit(<< <<"progress", "init_client">> >>)
          /\ UNCHANGED client
    /\ UNCHANGED <<env, creds, response, view, idx, stream, file, net, file0,
                   fileAtFetch, runs>>

\* Line 225 and lines 80-110: the analysis request.
create_api_response ==
    /\ pc = "create"
    /\ net' = Append(net, [op |-> "responses.create",
                           args |-> RequestArgs(get_analysis_prompt, creds[3], creds[2])])
    /\ \/ \E r \in Responses :
          /\ response' = r
          /\ view' = 1
          /\ pc' = "render"
          /\ UNCHANGED <<exc, raisedAt>>
       \/ \E t \in ExcTypes :
          /\ Raise(t, "create")
          /\ UNCHANGED <<response, view>>
    /\ UNCHANGED <<env, creds, client, idx, stream, file, out, file0,
                   fileAtFetch, runs>>

\* Lines 227-240: print the next of the three views.
RenderView ==
    /\ pc = "render"
    /\ \/ /\ Emit(<< <<"view", RenderOrder[view]>> >>)
          /\ view' = view + 1
          /\ pc' = IF view = Len(RenderOrder) THEN "save" ELSE "render"
          /\ UNCHANGED <<exc, raisedAt>>
       \/ \E t \in ExcTypes :
          /\ Raise(t, "render")
          /\ UNCHANGED <<out, view>>
    /\ UNCHANGED <<env, creds, client, response, idx, stream, file, net, file0,
                   fileAtFetch, runs>>

----------------------------------------------------------------------------
(* save_visualizations (lines 113-147) *)

\* Lines 121-125: the banner, then the read of response.messages, which
\* raises AttributeError on an object without that attribute.
SaveBegin ==
    /\ pc = "save"
    /\ Emit(<< <<"banner", "saving">> >>)
    /\ IF response.has_messages
       THEN /\ idx' = 1
            /\ pc' = "scan"
            /\ UNCHANGED <<exc, raisedAt>>
       ELSE /\ Raise("AttributeError", "messages")
            /\ UNCHANGED idx
    /\ UNCHANGED <<env, creds, client, response, view, stream, file, net, file0,
                   fileAtFetch, runs>>

\* Lines 129-139: the next citation is found and its content requested.
Retrieve ==
    /\ pc = "scan"
    /\ idx <= Len(Citations(response.items))
    /\ LET a == Citations(response.items)[idx] IN
         /\ Emit(<< <<"found", a.file_id>> >>)
         /\ fileAtFetch' = file
         /\ \/ \E st \in Streams :
               /\ stream' = st
               /\ net' = Append(net, [op |-> "containers.files.content.retrieve",
                                      args |-> <<a.container_id, a.file_id>>,
                                      result |-> st])
               /\ pc' = "open"
               /\ UNCHANGED <<exc, raisedAt>>
            \/ \E t \in ExcTypes :
               /\ net' = Append(net, [op |-> "containers.files.content.retrieve",
                                      args |-> <<a.container_id, a.file_id>>,
                                      result |-> [body |-> <<>>, read_raises |-> t]])
               /\ Raise(t, "retrieve")
               /\ UNCHANGED stream
    /\ UNCHANGED <<env, creds, client, response, view, idx, file, file0, runs>>

\* Line 142: open the output file for writing; the open may fail.
OpenFile ==
    /\ pc = "open"
    /\ \/ /\ file' = OpenWB(file)
          /\ pc' = "write"
          /\ UNCHANGED <<exc, raisedAt>>
       \/ /\ Raise("OSError", "open")
          /\ UNCHANGED file
    /\ UNCHANGED <<env, creds, client, response, view, idx, stream, out, net,
                   file0, fileAtFetch, runs>>

\* Lines 143-145: read the stream, write the bytes, close, report.
ReadAndWrite ==
    /\ pc = "write"
    /\ IF stream.read_raises = NoExc
       THEN /\ file' = Write(file, stream.body)
            /\ Emit(<< <<"saved", OUTPUT_IMAGE_PATH>> >>)
            /\ idx' = idx + 1
            /\ pc' = "scan"
            /\ UNCHANGED <<exc, raisedAt>>
       ELSE /\ Raise(stream.read_raises, "read")
            /\ UNCHANGED <<file, out, idx>>
    /\ UNCHANGED <<env, creds, client, response, view, stream, net, file0,
                   fileAtFetch, runs>>

\* Line 147: the loops are exhausted; the closing rule, then return.
SaveEnd ==
    /\ pc = "scan"
    /\ idx > Len(Citations(response.items))
    /\ Emit(<< <<"banner", "saved">> >>)
    /\ pc' = "returned"
    /\ UNCHANGED <<env, creds, client, response, view, idx, stream, file, net,
                   exc, raisedAt, file0, fileAtFetch, runs>>

----------------------------------------------------------------------------
(* The end of call_openai *)

\* Line 243 returns: the try block is left normally.
ReturnFromSave ==
    /\ pc = "returned"
    /\ pc' = "done"
    /\ UNCHANGED <<env, creds, client, response, view, idx, stream, file, out,
                   net, exc, raisedAt, file0, fileAtFetch, runs>>

\* Lines 245-252: the first matching clause prints its diagnostic; an
\* exception no clause matches leaves call_openai.
HandleException ==
    /\ pc = "raised"
    /\ LET n == MatchingClause(exc) IN
         IF n = 0
         THEN /\ pc' = "propagated"
              /\ UNCHANGED out
         ELSE /\ Emit(<< <<"diagnostic", ExceptClauses[n].diagnostic>> >>)
              /\ pc' = AfterHandler
    /\ UNCHANGED <<env, creds, client, response, view, idx, stream, file, net,
                   exc, raisedAt, file0, fileAtFetch, runs>>

Next ==
    \/ ValidateEnvironment
    \/ InitClient
    \/ create_api_response
    \/ RenderView
    \/ SaveBegin
    \/ Retrieve
    \/ OpenFile
    \/ ReadAndWrite
    \/ SaveEnd
    \/ ReturnFromSave
    \/ HandleException

Spec == Init /\ [][Next]_vars

\* call_openai is one sequential thread: a step that can be taken is taken.
FairSpec == Spec /\ WF_vars(Next)

----------------------------------------------------------------------------
(* save_visualizations called twice on one response (lines 113-147) *)

InitTwice ==
    /\ env = [v \in EnvVars |-> "v1"]
    /\ creds = <<"v1", "v1", "v1">>
    /\ pc = "save"
    /\ client = TRUE
    /\ response \in Responses
    /\ view = Len(RenderOrder) + 1
    /\ idx = 1
    /\ stream = NoStream
    /\ file \in InitialFiles
    /\ out = <<>>
    /\ net = <<>>
    /\ exc = NoExc
    /\ raisedAt = "none"
    /\ file0 = file
    /\ fileAtFetch = file
    /\ runs = <<>>

\* A call of save_visualizations has returned or raised: its caller notes
\* what it left and, after the first call, calls it again.
CallAgain ==
    /\ pc \in {"returned", "raised"}
    /\ runs' = Append(runs, [file |-> file, exc |-> exc, at |-> raisedAt])
    /\ IF runs = <<>>
       THEN /\ pc' = "save"
            /\ exc' = NoExc
            /\ raisedAt' = "none"
       ELSE /\ pc' = "done"
            /\ UNCHANGED <<exc, raisedAt>>
    /\ UNCHANGED <<env, creds, client, response, view, idx, stream, file, out,
                   net, file0, fileAtFetch>>

NextTwice ==
    \/ SaveBegin
    \/ Retrieve
    \/ OpenFile
    \/ ReadAndWrite
    \/ SaveEnd
    \/ CallAgain

SpecTwice == InitTwice /\ [][NextTwice]_vars

----------------------------------------------------------------------------
(* Properties *)

IsDiagnostic(e) == e[1] = "diagnostic"
IsEnvError(e) == e[1] = "ERROR"
IsView(e) == e[1] = "view"
IsRequest(c) == c.op = "responses.create"
IsFetch(c) == c.op = "containers.files.content.retrieve"

Diags == SelectSeq(out, IsDiagnostic)
Views == SelectSeq(out, IsView)
Requests == SelectSeq(net, IsRequest)
Fetches == SelectSeq(net, IsFetch)

EnvMissing == \E v \in EnvVars : ~Truthy(env[v])

\* The analysis request has returned a response in this run.
RequestSucceeded ==
    \/ pc \in {"render", "save", "scan", "open", "write", "returned"}
    \/ pc \in {"raised", "done", "propagated"}
         /\ raisedAt \in {"render", "messages", "retrieve", "open", "read"}
    \/ pc = "done" /\ exc = NoExc /\ net # <<>>

\* The three views have been printed without a failure.
Rendered == RequestSucceeded /\ view > Len(RenderOrder)

\* C1: when any of the three environment values is absent or empty, no
\* client is created, no remote call is issued, and once validation has run
\* an error naming a missing variable is printed; no error ever names a
\* variable that is present.
C1_PreconditionGating ==
    EnvMissing =>
        /\ client = FALSE
        /\ net = <<>>
        /\ pc \in {"start", "done"}
        /\ pc = "done" =>
             \E v \in EnvVars : ~Truthy(env[v]) /\ \E n \in 1..Len(out) : out[n] = <<"ERROR", v>>
        /\ \A n \in 1..Len(out) : IsEnvError(out[n]) => ~Truthy(env[out[n][2]])

C1_Witness ==
    /\ pc = "done"
    /\ env["OPENAI_API_KEY"] = "v1"
    /\ env["AUTHORIZATION"] = "v2"
    /\ env["SERVER_URL"] = ""
    /\ out[Len(out) - 1] = <<"ERROR", "SERVER_URL">>

\* C2: every analysis request carries a tool list with exactly one
\* descriptor of type "mcp", labelled "AlphaVantage" and with
\* require_approval "never".
C2_RequestShape ==
    \A n \in 1..Len(Requests) :
        LET ts == Requests[n].args.tools
            mcp == {k \in 1..Len(ts) : ts[k].type = "mcp"}
        IN  /\ Cardinality(mcp) = 1
            /\ \A k \in mcp : /\ ts[k].server_label = "AlphaVantage"
                              /\ ts[k].require_approval = "never"

C2_Witness ==
    /\ Len(Requests) = 1
    /\ Requests[1].args.tools[1].server_url = "v2"
    /\ Requests[1].args.tools[1].authorization = "v1"
    /\ Requests[1].args.input = get_analysis_prompt

\* The kind of a failure, as the four disjoint categories are defined.
FailureKind(t) ==
    IF IsInstance(t, "AuthenticationError") THEN "AUTHENTICATION ERROR"
    ELSE IF IsInstance(t, "APIError") /\ ~IsInstance(t, "AuthenticationError")
         THEN "API ERROR"
    ELSE IF IsInstance(t, "OpenAIError") /\ ~IsInstance(t, "APIError")
         THEN "OPENAI ERROR"
    ELSE "UNEXPECTED ERROR"

\* C3: a failure raised in the workflow makes call_openai print exactly one
\* diagnostic, the one of the failure's kind; no diagnostic is printed
\* without a failure or before the failure is handled.
C3_OneDiagnosticOfKind ==
    IF pc \in {"done", "propagated"} /\ exc # NoExc
    THEN Diags = << <<"diagnostic", FailureKind(exc)>> >>
    ELSE Diags = <<>>

C3_Witness ==
    /\ pc = "done"
    /\ exc = "AuthenticationError"
    /\ raisedAt = "create"
    /\ Diags = << <<"diagnostic", "AUTHENTICATION ERROR">> >>

\* C4: every run ends in the normal end of call_openai: no exception leaves
\* it, and a run that failed has printed a diagnostic by then.
C4_TerminatesNormally ==
    <>[](/\ pc = "done"
         /\ exc # NoExc => Diags # <<>>
         /\ EnvMissing => SelectSeq(out, IsEnvError) # <<>>)

C4_Witness ==
    /\ pc = "done"
    /\ exc = "OSError"
    /\ raisedAt = "open"
    /\ Diags # <<>>

\* C5: when the analysis request succeeded, the views were printed and the
\* response holds no container_file_citation annotation, the run ends
\* with no artifact fetch, the output file untouched and no error
\* diagnostic.
C5_SilentNoOp ==
    (pc = "done" /\ Rendered /\ ScanFrom(response.items, 1) = <<>>) =>
        /\ Fetches = <<>>
        /\ file = file0
        /\ Diags = <<>>

\* C6: a run that ends without a failure on a response holding file
\* citations has issued one fetch per citation, in scan order, and leaves
\* the output file holding exactly the bytes of the last fetch; every save
\* reported names the fixed path.
C6_LastArtifactWins ==
    LET cs == ScanFrom(response.items, 1) IN
    (pc = "done" /\ exc = NoExc /\ RequestSucceeded /\ cs # <<>>) =>
        /\ Len(Fetches) = Len(cs)
        /\ \A k \in 1..Len(cs) :
             Fetches[k].args = <<cs[k].container_id, cs[k].file_id>>
        /\ file = [exists |-> TRUE, data |-> Fetches[Len(cs)].result.body]
        /\ \A n \in 1..Len(out) : out[n][1] = "saved" => out[n][2] = "stock_image.png"

C6_Witness ==
    /\ pc = "done"
    /\ exc = NoExc
    /\ Len(response.items) = 2
    /\ Len(Fetches) = 2
    /\ Fetches[1].result.body = <<2, 3>>
    /\ Fetches[2].result.body = <<1>>
    /\ file.data = <<1>>

\* The remote answered every fetch with bytes, the same for the same
\* (container id, file id), and no call stopped in a fetch or at the file.
SameBytes ==
    /\ \A n \in 1..Len(runs) : runs[n].at \in {"none", "messages"}
    /\ \A m, n \in 1..Len(Fetches) :
         Fetches[m].args = Fetches[n].args => Fetches[m].result = Fetches[n].result

\* C7: two calls of save_visualizations on the same response, the remote
\* returning the same bytes for the same file, leave the file as the first
\* call left it.
C7_Idempotent ==
    (pc = "done" /\ Len(runs) = 2 /\ SameBytes) => runs[2].file = runs[1].file

C7_Witness ==
    /\ pc = "done"
    /\ Len(runs) = 2
    /\ SameBytes
    /\ Len(Fetches) = 4
    /\ file0.exists
    /\ runs[1].file.data = <<2, 3>>
    /\ file = runs[1].file

\* C8: the analysis request is issued at most once, and once a failure has
\* been raised no further remote call is issued.
C8_SingleShot ==
    [][/\ Len(SelectSeq(net', IsRequest)) <= 1
       /\ exc # NoExc => net' = net]_vars

C8_Witness ==
    /\ pc = "done"
    /\ exc = "RateLimitError"
    /\ raisedAt = "retrieve"
    /\ Len(ScanFrom(response.items, 1)) = 2
    /\ Len(net) = 2

ExpectedViews ==
    << <<"view", "model_dump">>, <<"view", "output">>, <<"view", "output_text">> >>

\* C9: the views are printed in the order structured dump, output
\* sequence, flattened text; all three are printed once rendering is
\* through and before any artifact is found or fetched; none is printed
\* when the client or the analysis request failed.
C9_ViewsInOrder ==
    /\ Views = SubSeq(ExpectedViews, 1, Len(Views))
    /\ Rendered => Views = ExpectedViews
    /\ Fetches # <<>> => Views = ExpectedViews
    /\ \A m, n \in 1..Len(out) :
         (IsView(out[m]) /\ out[n][1] \in {"found", "saved"}) => m < n
    /\ (~RequestSucceeded) => Views = <<>>

C9_Witness ==
    /\ pc = "open"
    /\ Len(Fetches) = 1
    /\ Views = ExpectedViews

\* C10 as stated: a failed fetch (the retrieve call or the read of the
\* stream raises) leaves the file as it was before that fetch.
C10_FailedFetchLeavesFile ==
    (exc # NoExc /\ raisedAt \in {"retrieve", "read"}) => file = fileAtFetch

\* The file as a completed earlier save of this run, or the start of the
\* run, left it.
LeftByEarlierSave(f) ==
    IF Fetches = <<>> \/ Len(Fetches) = 1
    THEN f = file0
    ELSE f = [exists |-> TRUE, data |-> Fetches[Len(Fetches) - 1].result.body]

\* C10 amended: when retrieve raises, the file is as it was before that
\* fetch (its content from before the run, or the complete bytes of the
\* artifact saved before); when the read of the stream raises, the file has
\* been opened for writing and is left existing and empty.
C10_FailedFetchFile ==
    (exc # NoExc /\ pc \in {"raised", "done"}) =>
        /\ raisedAt = "retrieve" => (file = fileAtFetch /\ LeftByEarlierSave(file))
        /\ raisedAt = "read" =>
             (file = [exists |-> TRUE, data |-> <<>>] /\ LeftByEarlierSave(fileAtFetch))

C10_Witness ==
    /\ pc = "done"
    /\ raisedAt = "read"
    /\ Len(Fetches) = 2
    /\ fileAtFetch.data = <<2, 3>>
    /\ file.data = <<>>

====
